---------------------------- MODULE Spec2Model ----------------------------
(***************************************************************************)
(* Model of the Zoom Team Chat / Anthropic relay:                          *)
(*   - the webhook dispatcher (handleZoomWebhook),                         *)
(*   - the completion client (callAnthropicAPI) with its per-recipient     *)
(*     conversationHistory map,                                            *)
(*   - the chat API client (sendChatMessage),                              *)
(*   - the OAuth routes /auth/login and /auth/callback with the session    *)
(*     middleware (specification SpecOAuth).                               *)
(*                                                                         *)
(* Node.js runs handlers cooperatively: a handler runs without             *)
(* interruption until it awaits I/O.  Every action below is the code       *)
(* between two suspension points.                                          *)
(*                                                                         *)
(* JavaScript arrays are objects: conversationHistory.get(userJid) hands   *)
(* out a reference to the stored array and history.push mutates it in      *)
(* place.  The model therefore keeps a heap of arrays (arrays) and the     *)
(* map and the calls' locals hold array identifiers.                       *)
(*                                                                         *)
(* Texts are sequences of one-character strings, so that startsWith,       *)
(* trim, join and the regular expressions are computed, not assumed.       *)
(***************************************************************************)
EXTENDS Integers, Sequences, FiniteSets, TLC

\* Number of webhook requests received during a run.
MaxCalls == 2

\* history.length > 20 ? history.slice(-20) : history
MaxTurns == 20

Calls == 1..MaxCalls

Recipients == {"u1", "u2"}

FALLBACK_MODEL == "claude-3-5-sonnet-latest"

\* process.env.ANTHROPIC_MODEL: unset ("") or a configured model name.
EnvModels == {"", "claude-custom"}

\* const DEFAULT_MODEL = process.env.ANTHROPIC_MODEL || 'claude-3-5-sonnet-latest'
DefaultModelOf(envModel) == IF envModel # "" THEN envModel ELSE FALLBACK_MODEL

\* process.env.ANTHROPIC_API_KEY: unset, lacking the prefix, well-formed.
ApiKeys ==
  { <<>>,
    <<"s", "k", "-", "1">>,
    <<"s", "k", "-", "a", "n", "t", "-", "1">> }

KeyPrefix == <<"s", "k", "-", "a", "n", "t", "-">>

\* String.prototype.startsWith
StartsWith(s, p) == Len(s) >= Len(p) /\ SubSeq(s, 1, Len(p)) = p

\* Mutant: only the presence of the key is checked, not its prefix.
KeyCheckPresenceOnly(key) == IF key = <<>> THEN "missing" ELSE "ok"

\* The two throws that open the try block: "missing" | "invalid" | "ok".
KeyCheck(key) ==
  IF key = <<>> THEN "missing"
  ELSE IF ~StartsWith(key, KeyPrefix) THEN "invalid"
  ELSE "ok"

-----------------------------------------------------------------------------
(* Texts *)

Hello == <<"H", "e", "l", "l", "o">>

\* The fixed apology of the catch block (abbreviated to its first word).
APOLOGY == <<"S", "o", "r", "r", "y">>

Whitespace == {" ", "\n", "\t"}

RECURSIVE TrimStart(_)
TrimStart(s) ==
  IF s # <<>> /\ Head(s) \in Whitespace THEN TrimStart(Tail(s)) ELSE s

RECURSIVE TrimEnd(_)
TrimEnd(s) ==
  IF s # <<>> /\ s[Len(s)] \in Whitespace
  THEN TrimEnd(SubSeq(s, 1, Len(s) - 1))
  ELSE s

\* String.prototype.trim
Trim(s) == TrimEnd(TrimStart(s))

\* Array.prototype.join('\n') on a sequence of texts
RECURSIVE JoinLines(_)
JoinLines(ts) ==
  IF ts = <<>> THEN <<>>
  ELSE IF Len(ts) = 1 THEN ts[1]
  ELSE ts[1] \o <<"\n">> \o JoinLines(Tail(ts))

\* .filter(block => block.type === 'text').map(block => block.text)
RECURSIVE TextBlocks(_)
TextBlocks(blocks) ==
  IF blocks = <<>> THEN <<>>
  ELSE IF Head(blocks).type = "text"
       THEN <<Head(blocks).text>> \o TextBlocks(Tail(blocks))
       ELSE TextBlocks(Tail(blocks))

\* const completion = response.data.content.filter(..).map(..).join('\n').trim()
Completion(data) == Trim(JoinLines(TextBlocks(data.content)))

\* !response?.data?.content || !Array.isArray(response.data.content)
Unexpected(data) == "content" \notin DOMAIN data

Lower(ch) ==
  CASE ch = "M" -> "m" [] ch = "O" -> "o" [] ch = "D" -> "d" [] ch = "E" -> "e"
    [] ch = "L" -> "l" [] ch = "N" -> "n" [] ch = "T" -> "t" [] ch = "F" -> "f"
    [] ch = "U" -> "u" [] OTHER -> ch

LowerAll(s) == [i \in 1..Len(s) |-> Lower(s[i])]

\* The positions of s right after an occurrence of p that starts at or after from.
EndsOf(s, p, from) ==
  { i + Len(p) : i \in { j \in from..(Len(s) - Len(p) + 1) : SubSeq(s, j, j + Len(p) - 1) = p } }

\* /not_found/i.test(msg)
MatchNotFound(msg) ==
  EndsOf(LowerAll(msg), <<"n", "o", "t", "_", "f", "o", "u", "n", "d">>, 1) # {}

\* /model.*not.*found/i.test(msg)   ('.' does not match a line break; the
\* sample messages have none)
MatchModelNotFound(msg) ==
  LET s == LowerAll(msg)
  IN \E a \in EndsOf(s, <<"m", "o", "d", "e", "l">>, 1) :
       \E b \in EndsOf(s, <<"n", "o", "t">>, a) :
         EndsOf(s, <<"f", "o", "u", "n", "d">>, b) # {}

\* Mutant: every rejection counts as a model-not-found signal.
IsNotFoundAlways(err) == TRUE

\* const isNotFound = status === 404 || /not_found/i.test(msg) || /model.*not.*found/i.test(msg)
IsNotFound(err) ==
  err.status = 404 \/ MatchNotFound(err.msg) \/ MatchModelNotFound(err.msg)

\* Mutant: the retry is not conditioned on the default model.
ShouldRetryAnyModel(err, defaultModel) == IsNotFound(err)

\* if (isNotFound && DEFAULT_MODEL !== 'claude-3-5-sonnet-latest')
ShouldRetry(err, defaultModel) == IsNotFound(err) /\ defaultModel # FALLBACK_MODEL

\* response = await invokeAnthropic('claude-3-5-sonnet-latest')
RetryModel(defaultModel) == FALLBACK_MODEL


-----------------------------------------------------------------------------
(* Inputs *)

Events ==
  {"bot_notification", "bot_installed", "app_deauthorized",
   "endpoint.url_validation", "unknown_event"}

NoText == <<>>

\* Message texts carried by bot_notification payloads, by recipient: cmd and
\* message both present, neither, message only; with and without reply_to.
BotShapes(to) ==
  IF to = "u1"
  THEN { [cmd |-> <<"h", "i">>, message |-> <<"y", "o">>, reply_to |-> ""],
         [cmd |-> NoText, message |-> NoText, reply_to |-> "m1"] }
  ELSE { [cmd |-> NoText, message |-> <<"y", "o">>, reply_to |-> "m1"] }

BotPayload(to, shape) ==
  [toJid |-> to, cmd |-> shape.cmd, message |-> shape.message,
   reply_to |-> shape.reply_to, plainToken |-> ""]

\* bot_notification payloads; toJid "" stands for an absent or empty toJid.
BotPayloads ==
  UNION { { BotPayload(to, sh) : sh \in BotShapes(to) } : to \in Recipients }
    \cup { BotPayload("", [cmd |-> <<"h", "i">>, message |-> NoText, reply_to |-> "m1"]) }

TokenPayload(t) ==
  [toJid |-> "", cmd |-> NoText, message |-> NoText, reply_to |-> "", plainToken |-> t]

\* The webhook bodies { event, payload } the dispatcher is exercised with.
Bodies ==
  { [event |-> "bot_notification", payload |-> p] : p \in BotPayloads }
    \cup { [event |-> e, payload |-> TokenPayload("")] :
             e \in {"bot_installed", "app_deauthorized", "unknown_event"} }
    \cup { [event |-> "endpoint.url_validation", payload |-> TokenPayload(t)] :
             t \in {"", "abc123"} }

NoBody == [event |-> "", payload |-> TokenPayload("")]

\* Rejections of axios.post.  status 0 stands for err.response undefined (no
\* response received).  sig records what the sample was built to be: a 404,
\* a message one of the two regular expressions is meant to match, or
\* neither; no action reads it.

ApiErrors ==
  { [status |-> 404, msg |-> <<"m", "o", "d", "e", "l", ":", " ", "x">>, sig |-> "http404"],
    [status |-> 400, msg |-> <<"N", "o", "t", "_", "F", "o", "u", "n", "d", "_", "e", "r", "r">>,
     sig |-> "message"],
    [status |-> 400,
     msg |-> <<"M", "o", "d", "e", "l", " ", "x", " ", "N", "O", "T", " ", "f", "o", "u", "n", "d">>,
     sig |-> "message"],
    [status |-> 500, msg |-> <<"f", "o", "u", "n", "d", " ", "n", "o", " ", "m", "o", "d", "e", "l">>,
     sig |-> "other"],
    [status |-> 0, msg |-> <<"t", "i", "m", "e", "o", "u", "t">>, sig |-> "other"] }

\* response.data of a resolved axios.post.
ApiData ==
  { [type |-> "message",
     content |-> << [type |-> "text", text |-> <<" ", "a">>],
                    [type |-> "tool_use"],
                    [type |-> "text", text |-> <<"b", "\n">>] >>],
    [type |-> "message", content |-> << [type |-> "text", text |-> <<" ">>] >>],
    [type |-> "message", content |-> << >>],
    [type |-> "error"] }

\* Outcomes of one sendChatMessage: it resolves, or it throws (getChatbotToken
\* rejected, fetch rejected, or the chat API answered with an error status).
SendResults == {"ok", "error"}

-----------------------------------------------------------------------------
(* Conversation turns and arrays *)

\* { role: 'user', content: payload.cmd || payload.message || 'Hello' }
UserContent(payload) ==
  IF payload.cmd # NoText THEN payload.cmd
  ELSE IF payload.message # NoText THEN payload.message
  ELSE Hello

\* A turn; call names the complete call that pushed it (history of the
\* model, not a field of the JavaScript object).
UserMessage(payload, c) == [role |-> "user", content |-> UserContent(payload), call |-> c]

AssistantMessage(completion, c) == [role |-> "assistant", content |-> completion, call |-> c]

\* Mutant: slice(0, n) in place of slice(-n).
SliceFirst(h, n) == IF Len(h) > n THEN SubSeq(h, 1, n) ELSE h

\* Array.prototype.slice(-n)
SliceLast(h, n) == IF Len(h) > n THEN SubSeq(h, Len(h) - n + 1, Len(h)) ELSE h

\* history.length > 20 ? history.slice(-20) : history  (TRUE: a new array is stored)
NeedsSlice(h) == Len(h) > MaxTurns

\* Array identifiers: the array an earlier run left in the map, the [] a
\* call creates when the map has no entry, the array slice(-20) returns.
NullId == <<0, "null">>

SeedId == <<0, "seed">>

NewId(c) == <<c, "new">>

SliceId(c) == <<c, "slice">>

ArrayIds == {SeedId} \cup {NewId(c) : c \in Calls} \cup {SliceId(c) : c \in Calls}

\* The history k earlier, sequential, successful exchanges leave behind:
\* the exchanges are numbered -k .. -1, oldest first.
RECURSIVE Exchanges(_)
Exchanges(k) ==
  IF k = 0 THEN <<>>
  ELSE SliceLast(
         Exchanges(k - 1)
           \o << UserMessage(BotPayload("u1", [cmd |-> NoText, message |-> NoText, reply_to |-> ""]), 0 - k),
                 AssistantMessage(<<"o", "k">>, 0 - k) >>,
         MaxTurns)

\* Numbers of earlier exchanges with recipient "u1" before the run starts.
SeedSizes == {0, 1, 10}

-----------------------------------------------------------------------------
(* Chat API client *)

\* to_jid and user_jid of the request body are literals of sendChatMessage.
HARDCODED_JID == "vbdj8euxrduts0tan29tra@xmpp.zoom.us"

\* The recipient written into the request body: the literal, not the argument.
BodyRecipient(toJid) == HARDCODED_JID

\* Mutant: reply_to is set whether or not a reply-to id was given.
WithReplyToAlways(body, replyTo) == body @@ [reply_to |-> replyTo]

\* if (replyTo) { body.reply_to = replyTo; }
WithReplyTo(body, replyTo) ==
  IF replyTo # "" THEN body @@ [reply_to |-> replyTo] ELSE body

\* The JSON body sendChatMessage(toJid, message, replyTo) posts.
ChatBody(toJid, message, replyTo) ==
  WithReplyTo(
    [account_id |-> "5YQGYK-FSc-0M0DgZTCzkQ",
     head_text |-> "Hello World",
     text |-> message,
     robot_jid |-> "v1nhrah1hrqhuexexb5nn5-a@xmpp.zoom.us",
     to_jid |-> BodyRecipient(toJid),
     user_jid |-> HARDCODED_JID],
    replyTo)

\* The arguments of one sendChatMessage invocation.
SendArgs(toJid, message, replyTo) == [toJid |-> toJid, message |-> message, replyTo |-> replyTo]

\* sendChatMessage(userJid, completion, payload.reply_to || null)
ReplyArgs(payload, completion) == SendArgs(payload.toJid, completion, payload.reply_to)

\* sendChatMessage(payload?.toJid, 'Sorry, ...', payload?.reply_to || null)
ApologyArgs(payload) == SendArgs(payload.toJid, APOLOGY, payload.reply_to)

\* The request body a sendChatMessage invocation posts once the token is there.
ChatRequest(args) == ChatBody(args.toJid, args.message, args.replyTo)

\* Mutant: the apology send is not wrapped in its own try/catch.
ApologyFailureEscapes(res) == res # "ok"

\* Mutant: the catch block rethrows after the apology.
ApologyThenRethrow(res) == TRUE

\* try { await sendChatMessage(apology) } catch (sendError) { console.error(..) }:
\* TRUE when a failed apology send leaves callAnthropicAPI as an exception.
ApologyFailureRaises(res) == FALSE

-----------------------------------------------------------------------------
(* Dispatcher responses *)

\* Mutant: the envelope names a fixed event, not the one received.
SuccessEnvelopeFixedEvent(event) ==
  [status |-> 200,
   body |-> [success |-> TRUE, message |-> "Event processed successfully",
             event |-> "bot_notification"]]

\* res.status(200).json({ success: true, message: 'Event processed successfully', event })
SuccessEnvelope(event) ==
  [status |-> 200,
   body |-> [success |-> TRUE, message |-> "Event processed successfully", event |-> event]]

\* res.status(500).json({ success: false, error: 'Internal Server Error', message })
ErrorEnvelope ==
  [status |-> 500, body |-> [success |-> FALSE, error |-> "Internal Server Error"]]

\* Mutant: the token is read from a field the payload does not have.
ValidationEnvelopeNoEcho(payload) ==
  [status |-> 200, body |-> [message |-> [plainToken |-> "missing_token"]]]

\* res.status(200).json({ message: { plainToken: payload?.plainToken || 'missing_token' } })
ValidationEnvelope(payload) ==
  [status |-> 200,
   body |-> [message |-> [plainToken |-> IF payload.plainToken # "" THEN payload.plainToken
                                         ELSE "missing_token"]]]

NoResponse == [status |-> 0, body |-> [none |-> TRUE]]

\* What the handler answers once await callAnthropicAPI(payload) is over.
AfterCompletion(event, didRaise) == IF didRaise THEN ErrorEnvelope ELSE SuccessEnvelope(event)

-----------------------------------------------------------------------------
(* OAuth routes *)

\* Number of /auth requests of the one browser session the model follows.
MaxAuthRequests == 3

AuthRequests == 1..MaxAuthRequests

\* crypto.randomBytes(16).toString('hex'): the values the model draws from.
StateValues == {"s1", "s2"}

\* req.session.oauth_state undefined
NoState == ""

\* The session data: oauth_state, and whether zoomTokens has been set.
EmptySession == [oauth_state |-> NoState, zoomTokens |-> FALSE]

\* req.query of /auth/callback: "" stands for an absent parameter.
CallbackQueries ==
  [code : {"", "c1"}, state : {NoState} \cup StateValues, error : {"", "access_denied"}]

NoQuery == [code |-> "", state |-> NoState, error |-> ""]

\* if (!clientId || !clientSecret) throw new Error('Missing Zoom client credentials.')
BuildBasicAuthThrows(clientId, clientSecret) == clientId = "" \/ clientSecret = ""

\* /auth/login calls buildBasicAuth({ clientId, redirectUri, state }): the
\* options object is the first argument and there is no second one, so the
\* call throws and the catch block answers 500; otherwise res.redirect(url).
LoginStatus == IF BuildBasicAuthThrows("options", "") THEN 500 ELSE 302

\* Outcomes of await exchangeCodeForAccessToken(..)
ExchangeResults == {"tokens", "error"}

\* The checks that open /auth/callback: "error" | "missing" | "invalid" (each
\* answered 400) or "exchange".
CallbackCheck(query, sess) ==
  IF query.error # "" THEN "error"
  ELSE IF query.code = "" \/ query.state = "" THEN "missing"
  ELSE IF query.state # sess.oauth_state THEN "invalid"
  ELSE "exchange"

-----------------------------------------------------------------------------
(* State *)

VARIABLES
  apiKey,               \* process.env.ANTHROPIC_API_KEY
  envModel,             \* process.env.ANTHROPIC_MODEL
  conversationHistory,  \* the Map: recipient -> array identifier (NullId: no entry)
  arrays,               \* the heap: array identifier -> sequence of turns
  pc,                   \* where each webhook request stands
  req,                  \* req.body of each request
  history,              \* the local `history` of each running callAnthropicAPI
  requests,             \* models of the completion requests each call has posted
  sendCalls,            \* sendChatMessage invocations of each call, in order
  response,             \* the webhook response of each request
  raised,               \* callAnthropicAPI ended with an exception
  invoked,              \* number of callAnthropicAPI invocations by each request
  firstError,           \* history variable: sig of the rejection of the first completion request
  failedAt,             \* history variable: the step whose failure entered the catch block
  h0,                   \* history variable: get(recipient) when the call started
  overlapped,           \* history variable: another call for the recipient was in flight
  cleared,              \* history variable: the recipient was cleared while the call was in flight
  session,              \* the browser session as the session store holds it
  reqSession,           \* req.session of each /auth request: its own copy of the session
  authPc,               \* where each /auth request stands
  authReq,              \* route and req.query of each /auth request
  authStatus,           \* HTTP status of the response to each /auth request (0: none yet)
  issued,               \* history variable: logins that stored each state value
  accepted              \* history variable: callbacks that passed the state check, by state value

vars ==
  <<apiKey, envModel, conversationHistory, arrays, pc, req, history, requests,
    sendCalls, response, raised, invoked, firstError, failedAt, h0,
    overlapped, cleared, session, reqSession, authPc, authReq, authStatus,
    issued, accepted>>

authVars == <<session, reqSession, authPc, authReq, authStatus, issued, accepted>>

DEFAULT_MODEL == DefaultModelOf(envModel)

\* getConversationHistory(userJid): conversationHistory.get(userJid) || []
Get(r) == IF conversationHistory[r] = NullId THEN <<>> ELSE arrays[conversationHistory[r]]

Awaiting == {"await1", "await2"}

\* callAnthropicAPI has started and has not returned.
InFlight(c) == pc[c] \in {"await1", "await2", "sending", "apology"}

ToJid(c) == req[c].payload.toJid

\* Mutant: an array lives only as long as the map refers to it, so deleting
\* the entry empties the array a suspended call holds.
CollectWithEntry(arrs, map, pcs, locals) ==
  [id \in ArrayIds |-> IF id \in {map[r] : r \in Recipients} THEN arrs[id] ELSE <<>>]

\* Arrays nothing refers to any more are garbage: their content is dropped.
Collect(arrs, map, pcs, locals) ==
  LET live == {map[r] : r \in Recipients} \cup {locals[d] : d \in {e \in Calls : pcs[e] \in Awaiting}}
  IN [id \in ArrayIds |-> IF id \in live THEN arrs[id] ELSE <<>>]

Init ==
  /\ apiKey \in ApiKeys
  /\ envModel \in EnvModels
  /\ \E k \in SeedSizes :
       /\ conversationHistory =
            [r \in Recipients |-> IF r = "u1" /\ k > 0 THEN SeedId ELSE NullId]
       /\ arrays = [id \in ArrayIds |-> IF id = SeedId THEN Exchanges(k) ELSE <<>>]
  /\ pc = [c \in Calls |-> "idle"]
  /\ req = [c \in Calls |-> NoBody]
  /\ history = [c \in Calls |-> NullId]
  /\ requests = [c \in Calls |-> <<>>]
  /\ sendCalls = [c \in Calls |-> <<>>]
  /\ response = [c \in Calls |-> NoResponse]
  /\ raised = [c \in Calls |-> FALSE]
  /\ invoked = [c \in Calls |-> 0]
  /\ firstError = [c \in Calls |-> "none"]
  /\ failedAt = [c \in Calls |-> "none"]
  /\ h0 = [c \in Calls |-> <<>>]
  /\ overlapped = [c \in Calls |-> FALSE]
  /\ cleared = [c \in Calls |-> FALSE]
  /\ session = EmptySession
  /\ reqSession = [q \in AuthRequests |-> EmptySession]
  /\ authPc = [q \in AuthRequests |-> "idle"]
  /\ authReq = [q \in AuthRequests |-> [route |-> "", query |-> NoQuery]]
  /\ authStatus = [q \in AuthRequests |-> 0]
  /\ issued = [v \in StateValues |-> 0]
  /\ accepted = [v \in StateValues |-> 0]

-----------------------------------------------------------------------------
(* Actions *)

\* Requests are numbered in the order they arrive.
NextToArrive(c) == pc[c] = "idle" /\ \A d \in Calls : d < c => pc[d] # "idle"

\* The array the call works on: const history = conversationHistory.get(userJid) || []
Lookup(c, r) == IF conversationHistory[r] # NullId THEN conversationHistory[r] ELSE NewId(c)

\* Mutant: the user turn is not pushed.
PushUserSkipped(h, payload, c) == h

\* history.push(userMessage): the array as it is after the push.
PushUser(h, payload, c) == Append(h, UserMessage(payload, c))

\* Mutant: the assistant turn is not pushed before the history is stored.
PushAssistantSkipped(h, completion, c) == h

\* history.push({ role: 'assistant', content: completion })
PushAssistant(h, completion, c) == Append(h, AssistantMessage(completion, c))

\* handleZoomWebhook for bot_installed, app_deauthorized, endpoint.url_validation
\* and the default arm: no await, the response is sent at once.
ReceiveEvent(c, body) ==
  /\ NextToArrive(c)
  /\ body.event # "bot_notification"
  /\ req' = [req EXCEPT ![c] = body]
  /\ pc' = [pc EXCEPT ![c] = "responded"]
  /\ response' = [response EXCEPT ![c] =
                    IF body.event = "endpoint.url_validation"
                    THEN ValidationEnvelope(body.payload)
                    ELSE SuccessEnvelope(body.event)]
  /\ UNCHANGED <<authVars, apiKey, envModel, conversationHistory, arrays, history, requests,
                 sendCalls, raised, invoked, firstError, failedAt, h0,
                 overlapped, cleared>>

\* Mutant: the key check sits before the try block, next to the toJid check.
EntryKeyOutsideTry(payload, key) ==
  IF payload.toJid = "" THEN "return"
  ELSE IF KeyCheck(key) # "ok" THEN "return"
  ELSE "proceed"

\* Mutant: the key check comes before the toJid check.
EntryKeyFirst(payload, key) ==
  IF KeyCheck(key) # "ok" THEN "throw"
  ELSE IF payload.toJid = "" THEN "return"
  ELSE "proceed"

\* How callAnthropicAPI starts: "return" on a missing toJid (before the try
\* block), "throw" when the key check inside the try block fails, "proceed".
Entry(payload, key) ==
  IF payload.toJid = "" THEN "return"
  ELSE IF KeyCheck(key) # "ok" THEN "throw"
  ELSE "proceed"

\* handleZoomWebhook for bot_notification: callAnthropicAPI(payload) runs up to
\* its first await: the return on a missing toJid, or the key check failing
\* into the catch block (which starts the apology send), or the user turn
\* pushed and the first completion request posted.
ReceiveBot(c, body) ==
  LET p == body.payload
      r == p.toJid
      entry == Entry(p, apiKey)
      hid == Lookup(c, r)
      others == {d \in Calls : InFlight(d) /\ ToJid(d) = r}
  IN
  /\ NextToArrive(c)
  /\ body.event = "bot_notification"
  /\ req' = [req EXCEPT ![c] = body]
  /\ invoked' = [invoked EXCEPT ![c] = @ + 1]
  /\ pc' = [pc EXCEPT ![c] = IF entry = "return" THEN "returned"
                             ELSE IF entry = "throw" THEN "apology"
                             ELSE "await1"]
  /\ failedAt' = [failedAt EXCEPT ![c] = IF entry = "throw" THEN "key" ELSE @]
  /\ sendCalls' = [sendCalls EXCEPT ![c] =
                     IF entry = "throw" THEN Append(@, ApologyArgs(p)) ELSE @]
  /\ arrays' = IF entry = "proceed" THEN [arrays EXCEPT ![hid] = PushUser(@, p, c)]
               ELSE arrays
  /\ history' = [history EXCEPT ![c] = IF entry = "proceed" THEN hid ELSE @]
  /\ requests' = [requests EXCEPT ![c] = IF entry = "proceed" THEN <<DEFAULT_MODEL>> ELSE @]
  /\ h0' = [h0 EXCEPT ![c] = IF entry = "proceed" THEN Get(r) ELSE @]
  /\ overlapped' = IF entry = "return" THEN overlapped
                   ELSE [d \in Calls |-> IF d = c THEN others # {}
                                         ELSE overlapped[d] \/ d \in others]
  /\ UNCHANGED <<authVars, apiKey, envModel, conversationHistory, response, raised, firstError,
                 cleared>>

\* axios.post rejects.  After the first request: retry once with the fallback
\* model when the error is a model-not-found signal and the default model is
\* not the fallback; otherwise, and after the retry, the error is thrown into
\* the catch block, which starts the apology send.
ApiError(c, err) ==
  LET retry == pc[c] = "await1" /\ ShouldRetry(err, DEFAULT_MODEL)
      pcs == [pc EXCEPT ![c] = IF retry THEN "await2" ELSE "apology"]
  IN
  /\ pc[c] \in Awaiting
  /\ pc' = pcs
  /\ requests' = [requests EXCEPT ![c] =
                    IF retry THEN Append(@, RetryModel(DEFAULT_MODEL)) ELSE @]
  /\ firstError' = [firstError EXCEPT ![c] = IF pc[c] = "await1" THEN err.sig ELSE @]
  /\ failedAt' = [failedAt EXCEPT ![c] = IF retry THEN @ ELSE "api"]
  /\ sendCalls' = [sendCalls EXCEPT ![c] =
                     IF retry THEN @ ELSE Append(@, ApologyArgs(req[c].payload))]
  /\ arrays' = Collect(arrays, conversationHistory, pcs, history)
  /\ UNCHANGED <<authVars, apiKey, envModel, conversationHistory, req, history,
                 response, raised, invoked, h0, overlapped, cleared>>

\* axios.post resolves.  An unexpected or empty response is thrown into the
\* catch block; otherwise the assistant turn is pushed, the history (sliced
\* to its last 20 turns when longer) is put into the map and the reply send
\* is started.
ApiSuccess(c, data) ==
  LET p == req[c].payload
      r == p.toJid
      bad == IF Unexpected(data) THEN TRUE ELSE Completion(data) = <<>>
      completion == Completion(data)
      h == PushAssistant(arrays[history[c]], completion, c)
      stored == IF NeedsSlice(h) THEN SliceId(c) ELSE history[c]
      pushed == [arrays EXCEPT ![history[c]] = h]
      heap == IF NeedsSlice(h) THEN [pushed EXCEPT ![SliceId(c)] = SliceLast(h, MaxTurns)]
              ELSE pushed
      map == IF bad THEN conversationHistory ELSE [conversationHistory EXCEPT ![r] = stored]
      pcs == [pc EXCEPT ![c] = IF bad THEN "apology" ELSE "sending"]
  IN
  /\ pc[c] \in Awaiting
  /\ pc' = pcs
  /\ conversationHistory' = map
  /\ arrays' = Collect(IF bad THEN arrays ELSE heap, map, pcs, history)
  /\ failedAt' = [failedAt EXCEPT ![c] = IF bad THEN "response" ELSE @]
  /\ sendCalls' = [sendCalls EXCEPT ![c] =
                     Append(@, IF bad THEN ApologyArgs(p) ELSE ReplyArgs(p, completion))]
  /\ UNCHANGED <<authVars, apiKey, envModel, req, history, requests, response,
                 raised, invoked, firstError, h0, overlapped, cleared>>

\* The locals of a call that has returned are gone: the model forgets them.
Forget(f, c, empty) == [f EXCEPT ![c] = empty]

\* await sendChatMessage(userJid, completion, ..) ends: the call returns when
\* the send succeeded; a failed send is thrown into the catch block, which
\* starts the apology send.
ReplySendResult(c, res) ==
  /\ pc[c] = "sending"
  /\ pc' = [pc EXCEPT ![c] = IF res = "ok" THEN "returned" ELSE "apology"]
  /\ failedAt' = [failedAt EXCEPT ![c] = IF res = "ok" THEN @ ELSE "send"]
  /\ sendCalls' = IF res = "ok" THEN Forget(sendCalls, c, <<>>)
                  ELSE [sendCalls EXCEPT ![c] = Append(@, ApologyArgs(req[c].payload))]
  /\ history' = IF res = "ok" THEN Forget(history, c, NullId) ELSE history
  /\ requests' = IF res = "ok" THEN Forget(requests, c, <<>>) ELSE requests
  /\ firstError' = IF res = "ok" THEN Forget(firstError, c, "none") ELSE firstError
  /\ h0' = IF res = "ok" THEN Forget(h0, c, <<>>) ELSE h0
  /\ cleared' = IF res = "ok" THEN Forget(cleared, c, FALSE) ELSE cleared
  /\ UNCHANGED <<authVars, apiKey, envModel, conversationHistory, arrays, req, response, raised,
                 invoked, overlapped>>

\* The apology send of the catch block ends: whatever its outcome, the rest
\* of the catch block only logs and callAnthropicAPI returns.
ApologySendResult(c, res) ==
  /\ pc[c] = "apology"
  /\ raised' = [raised EXCEPT ![c] = ApologyFailureRaises(res)]
  /\ pc' = [pc EXCEPT ![c] = "returned"]
  /\ sendCalls' = Forget(sendCalls, c, <<>>)
  /\ history' = Forget(history, c, NullId)
  /\ requests' = Forget(requests, c, <<>>)
  /\ firstError' = Forget(firstError, c, "none")
  /\ h0' = Forget(h0, c, <<>>)
  /\ cleared' = Forget(cleared, c, FALSE)
  /\ UNCHANGED <<authVars, apiKey, envModel, conversationHistory, arrays, req, response, invoked,
                 failedAt, overlapped>>

\* handleZoomWebhook resumes after await callAnthropicAPI(payload) and answers;
\* of the request the model keeps the event and the response.
Respond(c) ==
  /\ pc[c] = "returned"
  /\ pc' = [pc EXCEPT ![c] = "responded"]
  /\ response' = [response EXCEPT ![c] = AfterCompletion(req[c].event, raised[c])]
  /\ req' = [req EXCEPT ![c] = [event |-> @.event, payload |-> TokenPayload("")]]
  /\ UNCHANGED <<authVars, apiKey, envModel, conversationHistory, arrays, history, requests,
                 sendCalls, raised, invoked, firstError, failedAt, h0, overlapped, cleared>>

\* Mutant: the whole map is emptied.
DeletedAll(map, r) == [q \in Recipients |-> NullId]

\* conversationHistory.delete(userJid): the map without the entry of r.
Deleted(map, r) == [map EXCEPT ![r] = NullId]

\* clearConversationHistory(userJid): conversationHistory.delete(userJid).
\* (Deleting an absent entry changes nothing and is left out.)
Clear(r) ==
  LET map == Deleted(conversationHistory, r)
  IN
  /\ conversationHistory[r] # NullId
  /\ conversationHistory' = map
  /\ arrays' = Collect(arrays, map, pc, history)
  /\ cleared' = [c \in Calls |-> cleared[c] \/ (InFlight(c) /\ ToJid(c) = r)]
  /\ UNCHANGED <<authVars, apiKey, envModel, pc, req, history, requests, sendCalls, response,
                 raised, invoked, firstError, failedAt, h0, overlapped>>

\* Mutant: the empty array returned for an absent recipient is put into the map.
AfterGetCreates(map, r) == IF map[r] = NullId THEN [map EXCEPT ![r] = SeedId] ELSE map

\* The map after conversationHistory.get(userJid) || []: Map.get only reads,
\* and the [] made for an absent recipient is returned, never set.
AfterGet(map, r) == map

\* getConversationHistory(userJid): returns Get(r) and changes nothing.
GetHistory(r) ==
  /\ conversationHistory' = AfterGet(conversationHistory, r)
  /\ UNCHANGED <<authVars, apiKey, envModel, arrays, pc, req, history, requests, sendCalls,
                 response, raised, invoked, firstError, failedAt, h0, overlapped,
                 cleared>>

Next ==
  \/ \E c \in Calls, body \in Bodies : ReceiveEvent(c, body)
  \/ \E c \in Calls, body \in Bodies : ReceiveBot(c, body)
  \/ \E c \in Calls, err \in ApiErrors : ApiError(c, err)
  \/ \E c \in Calls, data \in ApiData : ApiSuccess(c, data)
  \/ \E c \in Calls, res \in SendResults : ReplySendResult(c, res)
  \/ \E c \in Calls, res \in SendResults : ApologySendResult(c, res)
  \/ \E c \in Calls : Respond(c)
  \/ \E r \in Recipients : Clear(r)
  \/ \E r \in Recipients : GetHistory(r)

Spec == Init /\ [][Next]_vars

-----------------------------------------------------------------------------
(* OAuth actions.  The /auth routes and the webhook route share no state, so
   they are explored under a specification of their own. *)

chatVars ==
  <<apiKey, envModel, conversationHistory, arrays, pc, req, history, requests,
    sendCalls, response, raised, invoked, firstError, failedAt, h0,
    overlapped, cleared>>

\* Of a request that has been answered the model keeps the route only.
Answered(reqs, q) == [reqs EXCEPT ![q].query = NoQuery]

\* The session middleware (express-session with its default MemoryStore):
\* when a request arrives the stored session is read and req.session is a
\* fresh object built from it; the route handler runs in a later turn of the
\* event loop.
SessionLoaded(q, route, query) ==
  /\ authPc[q] = "idle"
  /\ \A d \in AuthRequests : d < q => authPc[d] # "idle"
  /\ route \in {"/auth/login", "/auth/callback"}
  /\ route = "/auth/login" => query = NoQuery
  /\ authReq' = [authReq EXCEPT ![q] = [route |-> route, query |-> query]]
  /\ reqSession' = [reqSession EXCEPT ![q] = session]
  /\ authPc' = [authPc EXCEPT ![q] = "loaded"]
  /\ UNCHANGED <<chatVars, session, authStatus, issued, accepted>>

\* GET /auth/login: the state is put into req.session, buildBasicAuth
\* returns or throws, the response is sent, and at the end of the response
\* the middleware writes req.session to the store.
AuthLogin(q, state) ==
  LET sess == [reqSession[q] EXCEPT !.oauth_state = state]
  IN
  /\ authPc[q] = "loaded"
  /\ authReq[q].route = "/auth/login"
  /\ reqSession' = [reqSession EXCEPT ![q] = EmptySession]
  /\ session' = sess
  /\ issued' = [issued EXCEPT ![state] = @ + 1]
  /\ authStatus' = [authStatus EXCEPT ![q] = LoginStatus]
  /\ authPc' = [authPc EXCEPT ![q] = "done"]
  /\ UNCHANGED <<chatVars, authReq, accepted>>

\* GET /auth/callback up to its await: a request that fails a check is
\* answered 400 (req.session is unmodified and is not written back);
\* otherwise oauth_state is deleted from req.session and the exchange starts.
AuthCallback(q) ==
  LET check == CallbackCheck(authReq[q].query, reqSession[q])
  IN
  /\ authPc[q] = "loaded"
  /\ authReq[q].route = "/auth/callback"
  /\ authPc' = [authPc EXCEPT ![q] = IF check = "exchange" THEN "exchange" ELSE "done"]
  /\ authStatus' = [authStatus EXCEPT ![q] = IF check = "exchange" THEN @ ELSE 400]
  /\ reqSession' = [reqSession EXCEPT ![q] =
                      IF check = "exchange" THEN [@ EXCEPT !.oauth_state = NoState]
                      ELSE EmptySession]
  /\ accepted' = IF check = "exchange"
                 THEN [accepted EXCEPT ![authReq[q].query.state] = @ + 1]
                 ELSE accepted
  /\ authReq' = IF check = "exchange" THEN authReq ELSE Answered(authReq, q)
  /\ UNCHANGED <<chatVars, session, issued>>

\* await exchangeCodeForAccessToken(..) ends: the tokens are put into
\* req.session and the browser is redirected, or the catch block answers
\* 500; at the end of the response the middleware writes req.session, from
\* which oauth_state was deleted, to the store.
ExchangeResult(q, res) ==
  LET sess == IF res = "tokens" THEN [reqSession[q] EXCEPT !.zoomTokens = TRUE]
              ELSE reqSession[q]
  IN
  /\ authPc[q] = "exchange"
  /\ session' = sess
  /\ reqSession' = [reqSession EXCEPT ![q] = EmptySession]
  /\ authStatus' = [authStatus EXCEPT ![q] = IF res = "tokens" THEN 302 ELSE 500]
  /\ authPc' = [authPc EXCEPT ![q] = "done"]
  /\ authReq' = Answered(authReq, q)
  /\ UNCHANGED <<chatVars, issued, accepted>>

NextOAuth ==
  \/ \E q \in AuthRequests, query \in CallbackQueries \cup {NoQuery} :
       \E route \in {"/auth/login", "/auth/callback"} : SessionLoaded(q, route, query)
  \/ \E q \in AuthRequests, state \in StateValues : AuthLogin(q, state)
  \/ \E q \in AuthRequests : AuthCallback(q)
  \/ \E q \in AuthRequests, res \in ExchangeResults : ExchangeResult(q, res)

\* The /auth routes are explored with the webhook side at rest, in one of its
\* initial configurations.
InitOAuth ==
  /\ Init
  /\ apiKey = <<>>
  /\ envModel = ""
  /\ \A r \in Recipients : conversationHistory[r] = NullId

SpecOAuth == InitOAuth /\ [][NextOAuth]_vars

-----------------------------------------------------------------------------
(* Properties *)

IsUserTurnOf(t, c) == t.role = "user" /\ t.call = c

TurnsOf(h, c) == {i \in 1..Len(h) : h[i].call = c}

\* Number of apology sends the call has started.
Apologies(c) == Cardinality({i \in 1..Len(sendCalls[c]) : sendCalls[c][i].message = APOLOGY})

BotCall(c) == req[c].event = "bot_notification"

\* C1: in every reachable state the history get(recipient) returns has at
\* most 20 turns, for every recipient.
C1_AtMost20Turns == \A r \in Recipients : Len(Get(r)) <= MaxTurns

\* C2: once the first completion request of a call has failed with a
\* model-not-found signal, the requests of the call are the default model
\* followed by exactly one request to the fallback model when the two differ;
\* when they are equal the call has posted the one request only and is in the
\* catch block (failure recorded, apology send started).
C2_SingleFallbackRetry ==
  \A c \in Calls :
    firstError[c] \in {"http404", "message"} =>
      IF envModel # ""
      THEN requests[c] = <<envModel, "claude-3-5-sonnet-latest">>
      ELSE /\ requests[c] = <<"claude-3-5-sonnet-latest">>
           /\ pc[c] = "apology"
           /\ failedAt[c] = "api"

\* C2 witness: a message-matched not-found error was retried on the fallback
\* model and the retry is in flight.
C2_RetryInFlight ==
  \E c \in Calls :
    /\ firstError[c] = "message"
    /\ pc[c] = "await2"
    /\ requests[c] = <<"claude-custom", "claude-3-5-sonnet-latest">>

\* C3: a call with a non-empty recipient returns either from a successful
\* reply send, with no failure, or from the catch block, where exactly one
\* apology send was started; a recorded failure always puts the call in the
\* catch block; and the call returns without raising whatever the outcome of
\* the apology send.
C3_ApologyOnceNoRaise ==
  /\ [](\A c \in Calls :
          /\ (failedAt[c] # "none" /\ pc[c] \notin {"returned", "responded"})
               => (pc[c] = "apology" /\ Apologies(c) = 1)
          /\ (pc[c] # "idle" /\ BotCall(c) /\ ToJid(c) # "" /\ KeyCheck(apiKey) # "ok"
                /\ pc[c] # "responded")
               => failedAt[c] = "key"
          /\ ~raised[c])
  /\ [][\A c \in Calls :
          (pc'[c] = "returned" /\ pc[c] # "returned" /\ req'[c].payload.toJid # "")
            => \/ pc[c] = "sending" /\ failedAt[c] = "none" /\ Apologies(c) = 0
               \/ pc[c] = "apology" /\ failedAt[c] # "none" /\ Apologies(c) = 1]_vars

\* C3 witness: a call whose reply send failed has been through the catch
\* block and has returned.
C3_ReturnedAfterSendFailure ==
  \E c \in Calls : pc[c] = "returned" /\ failedAt[c] = "send" /\ ~raised[c]

\* C4: when a call that passed the key check fails before the assistant turn
\* is appended, get(recipient) right after the failure ends with the call's
\* user turn.
C4_FailureLeavesUserTurn ==
  [][\A c \in Calls :
       (pc[c] \in Awaiting /\ pc'[c] = "apology")
         => LET h == Get(ToJid(c))'
            IN h # <<>> /\ h[Len(h)] = UserMessage(req[c].payload, c)]_vars

\* C5 as claimed: in every stored history every assistant turn is immediately
\* preceded by the user turn of the same call.
C5_AssistantFollowsItsUser ==
  \A r \in Recipients :
    \A i \in 1..Len(Get(r)) :
      Get(r)[i].role = "assistant" =>
        (i > 1 /\ IsUserTurnOf(Get(r)[i - 1], Get(r)[i].call))

\* C5 amended: in every stored history, every assistant turn of a call that
\* ran with no other call for its recipient in flight is immediately preceded
\* by the user turn of the same call, unless it is the first turn of the
\* history (truncation dropped its user turn).
C5_AssistantFollowsItsUserWhenAlone ==
  \A r \in Recipients :
    \A i \in 2..Len(Get(r)) :
      (/\ Get(r)[i].role = "assistant"
       /\ (Get(r)[i].call \in Calls => ~overlapped[Get(r)[i].call]))
        => IsUserTurnOf(Get(r)[i - 1], Get(r)[i].call)

\* C5 witness: a call that ran alone stored its exchange at the end of a
\* truncated history whose first turn is an assistant turn.
C5_TruncatedHeadIsAssistant ==
  \E r \in Recipients :
    LET h == Get(r)
    IN /\ Len(h) = MaxTurns
       /\ h[1].role = "assistant"
       /\ h[Len(h)].role = "assistant"
       /\ h[Len(h)].call \in Calls
       /\ ~overlapped[h[Len(h)].call]

\* The history the call must leave: the last 20 turns of the history found,
\* followed by the user turn and the assistant turn of the call.
ExpectedAfter(c, h) ==
  \E data \in ApiData :
    /\ ~Unexpected(data)
    /\ LET all == h0[c] \o << UserMessage(req[c].payload, c),
                              AssistantMessage(Completion(data), c) >>
       IN /\ Len(h) = (IF Len(all) > MaxTurns THEN MaxTurns ELSE Len(all))
          /\ \A i \in 1..Len(h) : h[i] = all[Len(all) - Len(h) + i]

\* C6: when a call that ran with no other call for its recipient in flight
\* stores its result, and when it returns after a successful reply send (the
\* recipient not having been cleared meanwhile), get(recipient) is the last 20
\* turns of: the history found at the start, the call's user turn, the call's
\* assistant turn.
C6_SequentialCallResult ==
  [][\A c \in Calls :
       /\ (pc[c] \in Awaiting /\ pc'[c] = "sending" /\ ~overlapped[c])
            => ExpectedAfter(c, Get(ToJid(c))')
       /\ (pc[c] = "sending" /\ pc'[c] = "returned" /\ ~overlapped[c] /\ ~cleared[c])
            => ExpectedAfter(c, Get(ToJid(c)))]_vars

\* C6 witness: a call that ran alone on a full history has stored the sliced
\* array and its reply send is in flight.
C6_StoredAfterTruncation ==
  \E c \in Calls :
    /\ pc[c] = "sending"
    /\ ~overlapped[c]
    /\ Len(h0[c]) = MaxTurns
    /\ conversationHistory[ToJid(c)] = SliceId(c)
    /\ Get(ToJid(c))[1] = h0[c][3]

\* C7: a bot_notification request invokes callAnthropicAPI exactly once, has
\* no response while the call runs, is answered only from the state in which
\* the call has returned, and the answer is the 200 success envelope.
C7_RespondsOkAfterCompletion ==
  /\ [](\A c \in Calls :
          (pc[c] # "idle" /\ BotCall(c)) =>
            /\ invoked[c] = 1
            /\ (pc[c] # "responded" => response[c] = NoResponse)
            /\ (pc[c] = "responded" => response[c] = SuccessEnvelope("bot_notification")))
  /\ [][\A c \in Calls :
          (response'[c] # response[c] /\ req'[c].event = "bot_notification")
            => pc[c] = "returned"]_vars

\* C7 witness: a bot_notification whose completion request failed has been
\* answered with status 200.
C7_AnsweredAfterApiFailure ==
  \E c \in Calls :
    /\ pc[c] = "responded"
    /\ BotCall(c)
    /\ failedAt[c] = "api"
    /\ response[c].status = 200

\* C8: a call whose toJid is absent or empty returns at once, without
\* raising, having posted no completion request and started no chat send,
\* and leaves the map and every array as they were.
C8_NoRecipientNoEffect ==
  [][\A c \in Calls :
       (pc[c] = "idle" /\ pc'[c] # "idle" /\ req'[c].event = "bot_notification"
          /\ req'[c].payload.toJid = "")
         => /\ pc'[c] = "returned"
            /\ requests'[c] = <<>>
            /\ sendCalls'[c] = <<>>
            /\ ~raised'[c]
            /\ conversationHistory' = conversationHistory
            /\ arrays' = arrays]_vars

\* C8 witness: a call without recipient has returned while the key is
\* missing or malformed.
C8_ReturnedWithoutRecipient ==
  \E c \in Calls :
    /\ pc[c] = "returned"
    /\ BotCall(c)
    /\ ToJid(c) = ""
    /\ KeyCheck(apiKey) # "ok"
    /\ sendCalls[c] = <<>>

\* C9: calls that overlapped with another call for the same recipient never
\* raise, and their requests are answered with status 200.
C9_RaceRaisesNothing ==
  \A c \in Calls :
    overlapped[c] => (~raised[c] /\ (pc[c] = "responded" => response[c].status = 200))

\* C9 witness (the lost update): two calls for one recipient have both
\* returned without failure and the stored history holds the turns of one
\* of them and no turn of the other.
C9_LostUpdate ==
  \E c \in Calls, d \in Calls :
    /\ c # d
    /\ pc[c] = "returned" /\ pc[d] = "returned"
    /\ BotCall(c) /\ BotCall(d)
    /\ ToJid(c) # "" /\ ToJid(c) = ToJid(d)
    /\ failedAt[c] = "none" /\ failedAt[d] = "none"
    /\ TurnsOf(Get(ToJid(c)), c) = {}
    /\ Cardinality(TurnsOf(Get(ToJid(c)), d)) = 2

\* C10: every chat message a call sends is addressed to the call's recipient:
\* the to_jid of the request body is the toJid passed to sendChatMessage, which
\* is the toJid of the payload.
C10_SentToRecipient ==
  \A c \in Calls :
    \A i \in 1..Len(sendCalls[c]) :
      /\ sendCalls[c][i].toJid = ToJid(c)
      /\ ChatRequest(sendCalls[c][i]).to_jid = sendCalls[c][i].toJid

\* C11 as claimed: every endpoint.url_validation request is answered with
\* status 200 and the body {message: {plainToken: t}}, t being the plainToken
\* of the payload whatever its value, and callAnthropicAPI is not invoked.
C11_TokenEchoedVerbatim ==
  \A c \in Calls :
    (pc[c] = "responded" /\ req[c].event = "endpoint.url_validation") =>
      /\ response[c] =
           [status |-> 200, body |-> [message |-> [plainToken |-> req[c].payload.plainToken]]]
      /\ invoked[c] = 0

\* C11 amended: the plainToken of the payload is echoed when it is not empty;
\* an absent or empty plainToken is answered with the literal "missing_token";
\* the status is 200 and callAnthropicAPI is not invoked in both cases.
C11_TokenEchoedUnlessEmpty ==
  \A c \in Calls :
    (pc[c] # "idle" /\ req[c].event = "endpoint.url_validation") =>
      /\ pc[c] = "responded"
      /\ response[c].status = 200
      /\ DOMAIN response[c].body = {"message"}
      /\ DOMAIN response[c].body.message = {"plainToken"}
      /\ response[c].body.message.plainToken =
           (IF req[c].payload.plainToken = "" THEN "missing_token"
            ELSE req[c].payload.plainToken)
      /\ invoked[c] = 0
      /\ requests[c] = <<>>
      /\ sendCalls[c] = <<>>

\* C11 witness: a validation request carrying the token "abc123" has been
\* answered with that token.
C11_TokenAnswered ==
  \E c \in Calls :
    /\ pc[c] = "responded"
    /\ req[c].event = "endpoint.url_validation"
    /\ req[c].payload.plainToken = "abc123"
    /\ response[c].body.message.plainToken = "abc123"

\* C12: a request whose event is bot_installed, app_deauthorized or outside
\* the enumeration is answered at once with status 200 and the envelope
\* {success: true, message: "Event processed successfully", event} naming the
\* event received; callAnthropicAPI is not invoked and the map, the arrays and
\* the completion and chat requests of every call stay as they were.
C12_OtherEventsOnlyAnswered ==
  [][\A c \in Calls :
       (pc[c] = "idle" /\ pc'[c] # "idle"
          /\ req'[c].event \notin {"bot_notification", "endpoint.url_validation"})
         => /\ pc'[c] = "responded"
            /\ response'[c] =
                 [status |-> 200,
                  body |-> [success |-> TRUE, message |-> "Event processed successfully",
                            event |-> req'[c].event]]
            /\ invoked'[c] = 0
            /\ conversationHistory' = conversationHistory
            /\ arrays' = arrays
            /\ requests' = requests
            /\ sendCalls' = sendCalls]_vars

\* C12 witness: an event outside the enumeration has been answered while a
\* call for a recipient with a stored history is awaiting the completion API.
C12_UnknownEventAnswered ==
  \E c \in Calls, d \in Calls :
    /\ pc[c] = "responded"
    /\ req[c].event = "unknown_event"
    /\ response[c].body.event = "unknown_event"
    /\ pc[d] = "await1"
    /\ Len(Get(ToJid(d))) > 1

\* C13: in every reachable state the map after clear(r) has no entry for r
\* and the entries of all other recipients as they were; on every step that
\* removes the entry of r, get(r) is empty right after it and get(q) is
\* unchanged for every other recipient q; and an entry appears for an absent
\* recipient only when a call for that recipient stores its history, never
\* through get.
C13_ClearThenGetIsEmpty ==
  /\ [](\A r \in Recipients :
          /\ Deleted(conversationHistory, r)[r] = NullId
          /\ \A q \in Recipients \ {r} :
               Deleted(conversationHistory, r)[q] = conversationHistory[q])
  /\ [][\A r \in Recipients :
          /\ (conversationHistory[r] # NullId /\ conversationHistory'[r] = NullId)
               => /\ Get(r)' = <<>>
                  /\ \A q \in Recipients \ {r} : Get(q)' = Get(q)
          /\ (conversationHistory[r] = NullId /\ conversationHistory'[r] # NullId)
               => \E c \in Calls :
                    /\ pc[c] \in Awaiting
                    /\ pc'[c] = "sending"
                    /\ ToJid(c) = r]_vars

\* C13 witness: u2 has been cleared (a call for u2 is past its store and its
\* recipient has no entry) while u1 still has its stored history.
C13_ClearedBesideAnother ==
  \E c \in Calls :
    /\ pc[c] = "sending"
    /\ ToJid(c) = "u2"
    /\ cleared[c]
    /\ Get("u2") = <<>>
    /\ Len(Get("u1")) > 1

\* C14: a call never has more than two completion requests; a first failure
\* that is no model-not-found signal leaves the single request and puts the
\* call in the catch block; a retry is only ever started by a model-not-found
\* signal; while the retry is awaited no further request is posted; and the
\* step on which a completion request fails for good starts the apology send,
\* stores nothing and starts no reply send.
C14_AtMostTwoRequests ==
  /\ [](\A c \in Calls :
          /\ Len(requests[c]) <= 2
          /\ firstError[c] = "other"
               => /\ requests[c] = <<DEFAULT_MODEL>>
                  /\ pc[c] = "apology"
                  /\ failedAt[c] = "api")
  /\ [][\A c \in Calls :
          /\ (pc[c] = "await1" /\ pc'[c] = "await2")
               => firstError'[c] \in {"http404", "message"}
          /\ pc[c] = "await2"
               => (requests'[c] = requests[c] /\ pc'[c] \in {"await2", "sending", "apology"})
          /\ (pc[c] \in Awaiting /\ pc'[c] = "apology" /\ failedAt'[c] = "api")
               => /\ requests'[c] = requests[c]
                  /\ sendCalls'[c] = <<ApologyArgs(req[c].payload)>>
                  /\ conversationHistory' = conversationHistory
                  /\ \A i \in 1..Len(Get(ToJid(c))') :
                       ~(Get(ToJid(c))'[i].role = "assistant" /\ Get(ToJid(c))'[i].call = c)]_vars

\* C14 witness: the fallback retry of a call failed too; the call is in the
\* catch block with its two requests and one apology send.
C14_RetryFailed ==
  \E c \in Calls :
    /\ pc[c] = "apology"
    /\ failedAt[c] = "api"
    /\ Len(requests[c]) = 2
    /\ Apologies(c) = 1

\* C15: the step that stores a successful completion starts exactly one chat
\* send, whose text is the content of the assistant turn just stored at the
\* end of the history; while that send is in flight it is the only send of the
\* call, it is no apology, its request body carries the text and has
\* reply_to equal to the payload's reply_to when that is present and no
\* reply_to field otherwise; and when the send succeeds the call returns
\* with that one send and no failure.
C15_OneReplySend ==
  /\ [](\A c \in Calls :
          pc[c] = "sending" =>
            /\ Len(sendCalls[c]) = 1
            /\ Apologies(c) = 0
            /\ sendCalls[c][1].toJid = ToJid(c)
            /\ ChatRequest(sendCalls[c][1]).text = sendCalls[c][1].message
            /\ IF req[c].payload.reply_to # ""
               THEN /\ "reply_to" \in DOMAIN ChatRequest(sendCalls[c][1])
                    /\ ChatRequest(sendCalls[c][1]).reply_to = req[c].payload.reply_to
               ELSE "reply_to" \notin DOMAIN ChatRequest(sendCalls[c][1]))
  /\ [][\A c \in Calls :
          /\ (pc[c] \in Awaiting /\ pc'[c] = "sending")
               => LET h == Get(ToJid(c))'
                  IN /\ sendCalls[c] = <<>>
                     /\ h # <<>>
                     /\ h[Len(h)].role = "assistant"
                     /\ h[Len(h)].call = c
                     /\ h[Len(h)].content = sendCalls'[c][1].message
                     /\ \E data \in ApiData :
                          ~Unexpected(data) /\ sendCalls'[c][1].message = Completion(data)
          /\ (pc[c] = "sending" /\ pc'[c] = "sending") => sendCalls'[c] = sendCalls[c]
          /\ (pc[c] = "sending" /\ pc'[c] = "returned")
               => (failedAt'[c] = "none" /\ ~raised'[c])]_vars

\* C15 witness: a call whose payload carries reply_to "m1" is sending its
\* reply, the one send of the call, with reply_to "m1" in the request body,
\* and another call has returned from a successful reply send.
C15_ReplyLinked ==
  \E c \in Calls, d \in Calls :
    /\ pc[c] = "sending"
    /\ req[c].payload.reply_to = "m1"
    /\ ChatRequest(sendCalls[c][1]).reply_to = "m1"
    /\ pc[d] = "returned"
    /\ BotCall(d)
    /\ ToJid(d) # ""
    /\ failedAt[d] = "none"
    /\ req[d].payload.reply_to = ""

\* The key is unset or does not start with "sk-ant-".
BadKey == apiKey = <<>> \/ ~StartsWith(apiKey, <<"s", "k", "-", "a", "n", "t", "-">>)

\* C16: with the key unset or lacking the prefix "sk-ant-", the step on which
\* a call with a non-empty recipient starts posts no completion request,
\* leaves the map and every array as they were (no user turn is pushed) and
\* starts the apology send; the call never has a completion request
\* afterwards, and its return leaves the map and the arrays unchanged too.
C16_BadKeyOnlyApologises ==
  /\ [](\A c \in Calls :
          (BadKey /\ pc[c] # "idle" /\ BotCall(c) /\ pc[c] # "responded" /\ ToJid(c) # "")
            => /\ requests[c] = <<>>
               /\ pc[c] \in {"apology", "returned"}
               /\ TurnsOf(Get(ToJid(c)), c) = {})
  /\ [][\A c \in Calls :
          /\ (BadKey /\ pc[c] = "idle" /\ pc'[c] # "idle"
                /\ req'[c].event = "bot_notification" /\ req'[c].payload.toJid # "")
               => /\ pc'[c] = "apology"
                  /\ requests'[c] = <<>>
                  /\ conversationHistory' = conversationHistory
                  /\ arrays' = arrays
                  /\ sendCalls'[c] = <<ApologyArgs(req'[c].payload)>>
                  /\ sendCalls'[c][1].message = APOLOGY
          /\ (BadKey /\ pc[c] = "apology" /\ pc'[c] = "returned")
               => /\ conversationHistory' = conversationHistory
                  /\ arrays' = arrays]_vars

\* C16 witness: with the key "sk-1", which lacks the prefix, a call for u1,
\* whose history is stored, is in the catch block with its apology send
\* started and no completion request.
C16_ApologyForMalformedKey ==
  \E c \in Calls :
    /\ apiKey = <<"s", "k", "-", "1">>
    /\ pc[c] = "apology"
    /\ ToJid(c) = "u1"
    /\ requests[c] = <<>>
    /\ Apologies(c) = 1
    /\ Len(Get("u1")) = MaxTurns

\* C17 as claimed: when a call that ran with no other call for its recipient
\* in flight returns from a successful reply send, and the recipient was
\* cleared while the call was suspended, get(recipient) is the turns found at
\* the start followed by the call's user and assistant turns (the last 20 of
\* them).
C17_ClearNeverDurableInFlight ==
  [][\A c \in Calls :
       (pc[c] = "sending" /\ pc'[c] = "returned" /\ cleared[c] /\ ~overlapped[c])
         => ExpectedAfter(c, Get(ToJid(c))')]_vars

\* C17 amended: a clear issued while the call awaits the completion API does
\* not discard the array the call holds: at its store step the call, having
\* run with no other call for its recipient in flight, puts an entry back and
\* get(recipient) is the last 20 of the turns found at the start followed by
\* the call's user and assistant turns.  No later step of the call touches
\* the map or the arrays, so a clear issued while the call awaits a chat send
\* stays in effect.
C17_ClearUndoneByStore ==
  [][\A c \in Calls :
       /\ (pc[c] \in Awaiting /\ pc'[c] = "sending" /\ cleared[c] /\ ~overlapped[c])
            => /\ conversationHistory[ToJid(c)] = NullId
               /\ conversationHistory'[ToJid(c)] # NullId
               /\ ExpectedAfter(c, Get(ToJid(c))')
       /\ (pc[c] \in {"sending", "apology"} /\ pc'[c] # pc[c])
            => /\ conversationHistory' = conversationHistory
               /\ arrays' = arrays]_vars

\* C17 witness: the history of the recipient was cleared while the call
\* awaited the completion API, and the call has stored the turns it found
\* followed by its own two.
C17_ClearedThenStored ==
  \E c \in Calls :
    /\ pc[c] = "sending"
    /\ cleared[c]
    /\ ~overlapped[c]
    /\ Len(h0[c]) > 1
    /\ ExpectedAfter(c, Get(ToJid(c)))

\* The history ends with the user turn of call c followed by an assistant
\* turn of call c.
EndsWithExchangeOf(h, c) ==
  /\ Len(h) >= 2
  /\ h[Len(h) - 1] = UserMessage(req[c].payload, c)
  /\ h[Len(h)].role = "assistant"
  /\ h[Len(h)].call = c

\* C18 as claimed: whenever the reply send of a call has failed, the history
\* of its recipient ends with the call's user turn followed by its assistant
\* turn.
C18_FailedSendKeepsExchange ==
  \A c \in Calls :
    (pc[c] = "apology" /\ failedAt[c] = "send") => EndsWithExchangeOf(Get(ToJid(c)), c)

\* C18 amended: the step that starts the reply send has put the history,
\* ending with the call's assistant turn, into the map; the step on which
\* the send fails leaves the map and every array as they were and starts the
\* apology send after the one reply send; and for a call that ran with no
\* other call for its recipient in flight and whose recipient was not cleared
\* meanwhile, the history ends with the call's user turn followed by its
\* assistant turn while the send is in flight and after it has failed.
C18_StoredBeforeSendNoRollback ==
  /\ [](\A c \in Calls :
          (/\ pc[c] = "sending" \/ (pc[c] = "apology" /\ failedAt[c] = "send")
           /\ ~overlapped[c]
           /\ ~cleared[c])
            => EndsWithExchangeOf(Get(ToJid(c)), c))
  /\ [][\A c \in Calls :
          /\ (pc[c] \in Awaiting /\ pc'[c] = "sending")
               => LET h == Get(ToJid(c))'
                  IN /\ conversationHistory'[ToJid(c)] # NullId
                     /\ h[Len(h)] = AssistantMessage(sendCalls'[c][1].message, c)
          /\ (pc[c] = "sending" /\ pc'[c] = "apology")
               => /\ conversationHistory' = conversationHistory
                  /\ arrays' = arrays
                  /\ failedAt'[c] = "send"
                  /\ Len(sendCalls[c]) = 1
                  /\ sendCalls'[c] = Append(sendCalls[c], ApologyArgs(req[c].payload))
                  /\ Apologies(c)' = 1]_vars

\* C18 witness: the reply send of a call that ran alone has failed, the
\* apology send is in flight, and the history of the recipient, 20 turns
\* long, ends with the undelivered exchange.
C18_UndeliveredReplyStored ==
  \E c \in Calls :
    /\ pc[c] = "apology"
    /\ failedAt[c] = "send"
    /\ ~overlapped[c]
    /\ ~cleared[c]
    /\ Len(sendCalls[c]) = 2
    /\ Len(Get(ToJid(c))) = MaxTurns
    /\ EndsWithExchangeOf(Get(ToJid(c)), c)

\* C19: a callback starts the code exchange only when its query carries a
\* code and a state equal to the oauth_state of its session, from which the
\* state is deleted before the exchange starts; and no state value has passed
\* the state check more often than logins have stored it.
C19_StateAcceptedOncePerLogin ==
  /\ [](\A v \in StateValues : accepted[v] <= issued[v])
  /\ [][\A q \in AuthRequests :
          (authPc[q] = "loaded" /\ authPc'[q] = "exchange")
            => /\ authReq[q].query.code # ""
               /\ authReq[q].query.state # ""
               /\ authReq[q].query.state = reqSession[q].oauth_state
               /\ reqSession'[q].oauth_state = NoState]_vars

=============================================================================
